---- MODULE Spec2Model ----
(***************************************************************************)
(* LinkShades Local Server (src/server.js): the WebSocket frame codec, the *)
(* per-connection session handlers, the device registry (connectedShades   *)
(* and shadesDB) and the control API.                                      *)
(*                                                                         *)
(* Bytes are integers 0..255, buffers and strings are sequences of bytes   *)
(* (character codes).  A JavaScript value is a record [t, n, s]: its type  *)
(* tag, its number (when a number) and its characters (when a string).     *)
(* Timestamps (new Date().toISOString()) are the integer clock reading     *)
(* they are printed from.  MQTT is left disabled (CONFIG.MQTT_ENABLED is   *)
(* false by default), so publishShadeDiscovery and publishShadeState       *)
(* return at their first line.                                             *)
(***************************************************************************)
EXTENDS Integers, Sequences, FiniteSets, TLC

VARIABLES
    CONFIG,           \* [SHADE_MIN, SHADE_MAX], the calibration
    shadesDB,         \* shadesDB.shades: identity -> DeviceRecord
    connectedShades,  \* the live-session map: identity -> socket
    dataFile,         \* the contents of CONFIG.DATA_FILE
    sockState,        \* per socket: "free", "rejected", "open", "ended", "closed"
    shadeChipID,      \* per socket: the closure variable shadeChipID
    buffer,           \* per socket: the closure variable buffer
    wire,             \* per socket: bytes the device has sent, not yet delivered
    clock,            \* the last reading of the system clock
    wrote,            \* the socket.write calls of the last handler run
    response,         \* what the last handler run answered an API caller
    call,             \* the last call of a pure function: [fn, args, ret]
    faults            \* the failures the environment may cause

vars == <<CONFIG, shadesDB, connectedShades, dataFile, sockState, shadeChipID,
          buffer, wire, clock, wrote, response, call, faults>>

\* what no handler assigns
static == <<CONFIG, faults>>

(***************************************************************************)
(* Bounds of the model.                                                    *)
(***************************************************************************)
MaxClock == 1
MaxWire == 20
MaxPayloadLen == 5
MaxRange == 36
MaxBacklog == 28

(***************************************************************************)
(* JavaScript values.                                                      *)
(***************************************************************************)
JSVal(t, n, s) == [t |-> t, n |-> n, s |-> s]
Undefined == JSVal("undefined", 0, <<>>)
Null == JSVal("null", 0, <<>>)
NaN == JSVal("NaN", 0, <<>>)
Num(n) == JSVal("number", n, <<>>)
Str(s) == JSVal("string", 0, s)
Bool(b) == JSVal("boolean", IF b THEN 1 ELSE 0, <<>>)

\* if (v): the truthiness of a value
Truthy(v) ==
    CASE v.t = "number" -> v.n # 0
      [] v.t = "string" -> v.s # <<>>
      [] v.t = "boolean" -> v.n = 1
      [] OTHER -> FALSE

RECURSIVE DecimalDigits(_)
\* the decimal digits of a natural number, as character codes
DecimalDigits(n) ==
    IF n < 10 THEN <<48 + n>> ELSE Append(DecimalDigits(n \div 10), 48 + (n % 10))

\* String(n) of an integer
NumberToString(n) == IF n < 0 THEN <<45>> \o DecimalDigits(0 - n) ELSE DecimalDigits(n)

\* String(v)
String(v) ==
    CASE v.t = "number" -> NumberToString(v.n)
      [] v.t = "string" -> v.s
      [] v.t = "boolean" -> IF v.n = 1 THEN <<116, 114, 117, 101>> ELSE <<102, 97, 108, 115, 101>>
      [] v.t = "null" -> <<110, 117, 108, 108>>
      [] v.t = "NaN" -> <<78, 97, 78>>
      [] OTHER -> <<117, 110, 100, 101, 102, 105, 110, 101, 100>>

RECURSIVE DigitsValue(_, _)
\* the number a run of decimal digits denotes; acc is the value read so far
DigitsValue(digits, acc) ==
    IF digits = <<>> THEN acc
    ELSE DigitsValue(Tail(digits), 10 * acc + (Head(digits) - 48))

\* parseInt(chipID) of a string the route's (\d+) matched
parseInt(digits) == DigitsValue(digits, 0)

(***************************************************************************)
(* Translation functions.  Math.round(x) is floor(x + 0.5); for a          *)
(* quotient a/b with b > 0 that is (2a + b) \div 2b, \div being floor      *)
(* division.                                                               *)
(***************************************************************************)
MathRoundDiv(a, b) == (2 * a + b) \div (2 * b)

\* percentToCommand with the percentage clamped to 0..100 first
percentToCommandClamped(percent) ==
    LET range == CONFIG.SHADE_MAX - CONFIG.SHADE_MIN
        clamped == IF percent < 0 THEN 0 ELSE IF percent > 100 THEN 100 ELSE percent
    IN  MathRoundDiv(CONFIG.SHADE_MIN * 100 + clamped * range, 100)

percentToCommand(percent) ==
    LET range == CONFIG.SHADE_MAX - CONFIG.SHADE_MIN
    IN  MathRoundDiv(CONFIG.SHADE_MIN * 100 + percent * range, 100)

\* commandToPercent cutting the fraction off instead of rounding
commandToPercentTruncating(command) ==
    LET range == CONFIG.SHADE_MAX - CONFIG.SHADE_MIN
    IN  ((command - CONFIG.SHADE_MIN) * 100) \div range

commandToPercent(command) ==
    LET range == CONFIG.SHADE_MAX - CONFIG.SHADE_MIN
    IN  MathRoundDiv((command - CONFIG.SHADE_MIN) * 100, range)

\* position / 10 converts its operand to a number first
positionToPercent(position) ==
    CASE position.t = "number" -> Num(MathRoundDiv(position.n, 10))
      [] position.t = "null" -> Num(0)
      [] position.t = "boolean" -> Num(0)
      [] OTHER -> NaN

(***************************************************************************)
(* Bit operations on bytes.                                                *)
(***************************************************************************)
RECURSIVE BitAnd(_, _)
BitAnd(a, b) ==
    IF a = 0 \/ b = 0 THEN 0
    ELSE 2 * BitAnd(a \div 2, b \div 2) + (IF a % 2 = 1 /\ b % 2 = 1 THEN 1 ELSE 0)

RECURSIVE BitXor(_, _)
BitXor(a, b) ==
    IF a = 0 THEN b
    ELSE IF b = 0 THEN a
    ELSE 2 * BitXor(a \div 2, b \div 2) + (IF a % 2 = b % 2 THEN 0 ELSE 1)

BitOr(a, b) == a + b - BitAnd(a, b)

\* buffer.slice(from, to), with offsets counted from 0 as in the source
Slice(buf, from, to) == SubSeq(buf, from + 1, IF to > Len(buf) THEN Len(buf) ELSE to)

\* buffer.readUInt16BE(offset)
readUInt16BE(buf, offset) == buf[offset + 1] * 256 + buf[offset + 2]

\* A length no buffer reaches: what a 64-bit length of 2^31 or more is read as.
HugeLength == 2147483647

\* Number(buffer.readBigUInt64BE(offset))
readBigUInt64BE(buf, offset) ==
    IF \E k \in 1..4 : buf[offset + k] # 0 THEN HugeLength
    ELSE IF buf[offset + 5] >= 128 THEN HugeLength
    ELSE ((buf[offset + 5] * 256 + buf[offset + 6]) * 256 + buf[offset + 7]) * 256
         + buf[offset + 8]

(***************************************************************************)
(* Frame Codec: parseWebSocketFrame.  NoFrame is the null it returns.      *)
(***************************************************************************)
NoFrame == [null |-> TRUE, opcode |-> 0, payload |-> <<>>, totalLength |-> 0]

\* parseFrameBody taking the mask key bytes one place late: maskKey[(i + 1) % 4]
parseFrameBodyShiftedMask(buf, opcode, masked, payloadLength, lengthOffset) ==
    IF masked /\ Len(buf) < lengthOffset + 4 THEN NoFrame
    ELSE LET offset == IF masked THEN lengthOffset + 4 ELSE lengthOffset
             maskKey == Slice(buf, lengthOffset, lengthOffset + 4)
         IN  IF Len(buf) - offset < payloadLength THEN NoFrame
             ELSE [null |-> FALSE,
                   opcode |-> opcode,
                   payload |-> [i \in 1..payloadLength |->
                                   IF masked
                                   THEN BitXor(buf[offset + i], maskKey[(i % 4) + 1])
                                   ELSE buf[offset + i]],
                   totalLength |-> offset + payloadLength]

\* lines 231-248: the mask key, the length check, the payload
parseFrameBody(buf, opcode, masked, payloadLength, lengthOffset) ==
    IF masked /\ Len(buf) < lengthOffset + 4 THEN NoFrame
    ELSE LET offset == IF masked THEN lengthOffset + 4 ELSE lengthOffset
             maskKey == Slice(buf, lengthOffset, lengthOffset + 4)
         IN  IF Len(buf) - offset < payloadLength THEN NoFrame
             ELSE [null |-> FALSE,
                   opcode |-> opcode,
                   payload |-> [i \in 1..payloadLength |->
                                   IF masked
                                   THEN BitXor(buf[offset + i], maskKey[((i - 1) % 4) + 1])
                                   ELSE buf[offset + i]],
                   totalLength |-> offset + payloadLength]

parseWebSocketFrame(buf) ==
    IF Len(buf) < 2 THEN NoFrame
    ELSE LET firstByte == buf[1]
             secondByte == buf[2]
             opcode == BitAnd(firstByte, 15)
             masked == BitAnd(secondByte, 128) # 0
             payloadLength == BitAnd(secondByte, 127)
         IN  IF payloadLength = 126
             THEN IF Len(buf) < 4 THEN NoFrame
                  ELSE parseFrameBody(buf, opcode, masked, readUInt16BE(buf, 2), 4)
             ELSE IF payloadLength = 127
             THEN IF Len(buf) < 10 THEN NoFrame
                  ELSE parseFrameBody(buf, opcode, masked, readBigUInt64BE(buf, 2), 10)
             ELSE parseFrameBody(buf, opcode, masked, payloadLength, 2)

(***************************************************************************)
(* Frame Codec: the frame sendWebSocketFrame builds (lines 253-273).       *)
(***************************************************************************)
\* writeUInt16LE in the place of writeUInt16BE
UInt16LE(n) == <<n % 256, n \div 256>>

\* frame.writeUInt16BE(n, 2)
UInt16BE(n) == <<n \div 256, n % 256>>

\* frame.writeBigUInt64BE(BigInt(n), 2), for n below 2^31
UInt64BE(n) ==
    <<0, 0, 0, 0, n \div 16777216, (n \div 65536) % 256, (n \div 256) % 256, n % 256>>

\* EncodeFrame with the comparison of line 256 off by one: payload.length < 125
EncodeFrameFrom125(payload, opcode) ==
    IF Len(payload) < 125
    THEN <<BitOr(128, opcode), Len(payload)>> \o payload
    ELSE IF Len(payload) < 65536
    THEN <<BitOr(128, opcode), 126>> \o UInt16BE(Len(payload)) \o payload
    ELSE <<BitOr(128, opcode), 127>> \o UInt64BE(Len(payload)) \o payload

\* lines 253-273: the frame of a payload that is a Buffer
EncodeFrame(payload, opcode) ==
    IF Len(payload) < 126
    THEN <<BitOr(128, opcode), Len(payload)>> \o payload
    ELSE IF Len(payload) < 65536
    THEN <<BitOr(128, opcode), 126>> \o UInt16BE(Len(payload)) \o payload
    ELSE <<BitOr(128, opcode), 127>> \o UInt64BE(Len(payload)) \o payload

(***************************************************************************)
(* The device's side of the wire format (RFC 6455 client frames): the      *)
(* bytes parseWebSocketFrame is given.  highBits are the FIN and RSV bits, *)
(* variant the length encoding (7, 16 or 64).                              *)
(***************************************************************************)
MaskBytes(payload, maskKey) ==
    [i \in 1..Len(payload) |-> BitXor(payload[i], maskKey[((i - 1) % 4) + 1])]

DeviceFrame(highBits, opcode, masked, maskKey, variant, payload) ==
    LET L == Len(payload)
        lengthField == IF variant = 7 THEN <<L>>
                       ELSE IF variant = 16 THEN <<126>> \o UInt16BE(L)
                       ELSE <<127>> \o UInt64BE(L)
    IN  <<highBits * 16 + opcode>>
        \o <<(IF masked THEN 128 ELSE 0) + Head(lengthField)>>
        \o Tail(lengthField)
        \o (IF masked THEN maskKey ELSE <<>>)
        \o (IF masked THEN MaskBytes(payload, maskKey) ELSE payload)

\* the header length of a variant
HeaderLength(variant) == IF variant = 7 THEN 2 ELSE IF variant = 16 THEN 4 ELSE 10

(***************************************************************************)
(* JSON text.  JSON.parse is modelled for the texts the devices of the     *)
(* model send: a scalar (integer, string without escapes, true, false,     *)
(* null) or an object whose members are scalars, without white space.      *)
(* Any other text is a SyntaxError.                                        *)
(***************************************************************************)
Quoted(s) == <<34>> \o s \o <<34>>

KeyChipID == <<99, 104, 105, 112, 73, 68>>
KeyCommand == <<99, 111, 109, 109, 97, 110, 100>>
KeyPosition == <<112, 111, 115, 105, 116, 105, 111, 110>>
KeyModel == <<109, 111, 100, 101, 108>>
KeyVersion == <<118, 101, 114, 115, 105, 111, 110>>

\* the result of reading one value: ok, the value, the index after it
Scan(ok, v, next) == [ok |-> ok, v |-> v, next |-> next]
ScanFail == Scan(FALSE, Undefined, 0)

RECURSIVE DigitsEnd(_, _)
\* the index after the run of digits that starts at i
DigitsEnd(text, i) ==
    IF i <= Len(text) /\ text[i] \in 48..57 THEN DigitsEnd(text, i + 1) ELSE i

\* an integer at i: an optional minus sign, digits, no leading zero
ScanNumber(text, i) ==
    LET neg == i <= Len(text) /\ text[i] = 45
        from == IF neg THEN i + 1 ELSE i
        to == DigitsEnd(text, from)
        digits == SubSeq(text, from, to - 1)
    IN  IF to = from \/ (to - from > 1 /\ text[from] = 48) THEN ScanFail
        ELSE Scan(TRUE, Num(IF neg THEN 0 - DigitsValue(digits, 0)
                                   ELSE DigitsValue(digits, 0)), to)

RECURSIVE QuoteAt(_, _)
\* the index of the first quote at or after i, 0 when there is none
QuoteAt(text, i) ==
    IF i > Len(text) THEN 0
    ELSE IF text[i] = 34 THEN i
    ELSE QuoteAt(text, i + 1)

\* a string at i
ScanString(text, i) ==
    IF i > Len(text) \/ text[i] # 34 THEN ScanFail
    ELSE LET close == QuoteAt(text, i + 1)
         IN  IF close = 0 THEN ScanFail
             ELSE Scan(TRUE, Str(SubSeq(text, i + 1, close - 1)), close + 1)

\* whether word stands at i
WordAt(text, i, word) ==
    i + Len(word) - 1 <= Len(text) /\ SubSeq(text, i, i + Len(word) - 1) = word

ScanScalar(text, i) ==
    IF i > Len(text) THEN ScanFail
    ELSE IF text[i] = 34 THEN ScanString(text, i)
    ELSE IF WordAt(text, i, <<116, 114, 117, 101>>) THEN Scan(TRUE, Bool(TRUE), i + 4)
    ELSE IF WordAt(text, i, <<102, 97, 108, 115, 101>>) THEN Scan(TRUE, Bool(FALSE), i + 5)
    ELSE IF WordAt(text, i, <<110, 117, 108, 108>>) THEN Scan(TRUE, Null, i + 4)
    ELSE ScanNumber(text, i)

\* what JSON.parse gives: a SyntaxError, a scalar, or an object (its members)
Parsed(kind, v, members) == [kind |-> kind, v |-> v, members |-> members]
SyntaxError == Parsed("error", Undefined, <<>>)
NoMembers == [k \in {} |-> Undefined]

RECURSIVE ScanMembers(_, _, _)
\* the members of an object from i on: "key":value , ... }
ScanMembers(text, i, members) ==
    LET key == ScanString(text, i)
    IN  IF ~key.ok \/ key.next > Len(text) \/ text[key.next] # 58 THEN SyntaxError
        ELSE LET val == ScanScalar(text, key.next + 1)
                 more == [k \in DOMAIN members \cup {key.v.s} |->
                             IF k = key.v.s THEN val.v ELSE members[k]]
             IN  IF ~val.ok \/ val.next > Len(text) THEN SyntaxError
                 ELSE IF text[val.next] = 125
                 THEN IF val.next = Len(text) THEN Parsed("object", Undefined, more)
                      ELSE SyntaxError
                 ELSE IF text[val.next] = 44 THEN ScanMembers(text, val.next + 1, more)
                 ELSE SyntaxError

JSONparse(text) ==
    IF text = <<>> THEN SyntaxError
    ELSE IF text[1] = 123
    THEN IF text = <<123, 125>> THEN Parsed("object", Undefined, NoMembers)
         ELSE ScanMembers(text, 2, NoMembers)
    ELSE LET val == ScanScalar(text, 1)
         IN  IF val.ok /\ val.next = Len(text) + 1 THEN Parsed("scalar", val.v, NoMembers)
             ELSE SyntaxError

\* data.key of a parsed object
Get(members, key) == IF key \in DOMAIN members THEN members[key] ELSE Undefined

\* JSON.stringify({ chipID: parseInt(chipID), command: command }), lines 337 and 364
CommandJSON(chipID, command) ==
    <<123>> \o Quoted(KeyChipID) \o <<58>> \o NumberToString(parseInt(chipID))
    \o <<44>> \o Quoted(KeyCommand) \o <<58>> \o NumberToString(command) \o <<125>>

\* the status text a device sends: "chipID" first, then the fields it has
StatusJSON(fields) ==
    LET Member(key, v) == Quoted(key) \o <<58>>
                          \o (IF v.t = "string" THEN Quoted(v.s) ELSE String(v))
        Opt(key) == IF key \in DOMAIN fields THEN <<44>> \o Member(key, fields[key])
                    ELSE <<>>
    IN  <<123>> \o Member(KeyChipID, fields[KeyChipID])
        \o Opt(KeyPosition) \o Opt(KeyModel) \o Opt(KeyVersion) \o <<125>>

(***************************************************************************)
(* The registry and the sessions.                                          *)
(***************************************************************************)
Sockets == {"A", "B"}

\* shadeChipID = null
NoChipID == <<>>

\* "LinkShade " of the generated name
NamePrefix == <<76, 105, 110, 107, 83, 104, 97, 100, 101, 32>>

\* no file at CONFIG.DATA_FILE
NoFile == [exists |-> FALSE, shades |-> [k \in {} |-> Undefined]]

\* JSON.stringify(shadesDB) as loadData reads it back: NaN is written as null
Serialize(shades) ==
    [exists |-> TRUE,
     shades |-> [k \in DOMAIN shades |->
                    IF shades[k].currentPosition = NaN
                    THEN [shades[k] EXCEPT !.currentPosition = Null]
                    ELSE shades[k]]]

\* saveData: the file after writeFileSync succeeded, or as it was when it threw
saveData(shades, file) ==
    {Serialize(shades)} \cup (IF "writeFile" \in faults THEN {file} ELSE {})

\* new Date(): the clock does not run backwards
ClockReads(t) == IF t < MaxClock THEN {t, t + 1} ELSE {t}

\* what a handler run reads and writes; buffer and shadeChipID are its socket's
HandlerState(s) ==
    [buffer |-> buffer[s], shadeChipID |-> shadeChipID[s],
     connectedShades |-> connectedShades, shades |-> shadesDB,
     dataFile |-> dataFile, clock |-> clock, wrote |-> <<>>,
     ended |-> sockState[s] = "ended"]

\* socket.destroyed
Destroyed(s) == sockState[s] \in {"closed", "rejected"}

\* sendWebSocketFrame(socket, data, opcode): the socket.write calls after it
sendWebSocketFrame(socket, data, opcode, written) ==
    IF Destroyed(socket) THEN written
    ELSE Append(written, [socket |-> socket, data |-> EncodeFrame(data, opcode)])

\* sendToShade(socket, data), data being the command message
sendToShade(socket, json, written) == sendWebSocketFrame(socket, json, 1, written)

\* lines 475-479: the record a first status message creates
NewRecord(chipID, now) ==
    [chipID |-> chipID, name |-> NamePrefix \o chipID, firstSeen |-> now,
     lastSeen |-> now, online |-> FALSE, model |-> Undefined, firmware |-> Undefined,
     rawPosition |-> Undefined, currentPosition |-> Undefined]

\* IngestAt without lines 474-480: a status never creates a record
IngestAtKnownOnly(s, h, data, createdAt, seenAt) ==
    LET chipID == String(Get(data, KeyChipID))
    IN  [h EXCEPT !.shadeChipID = chipID,
                  !.connectedShades =
                      [k \in DOMAIN h.connectedShades \cup {chipID} |->
                          IF k = chipID THEN s ELSE h.connectedShades[k]],
                  !.shades = [k \in DOMAIN h.shades |->
                                 IF k = chipID
                                 THEN [h.shades[k] EXCEPT !.lastSeen = seenAt,
                                                          !.online = TRUE]
                                 ELSE h.shades[k]],
                  !.clock = seenAt]

\* IngestAt with a bind that keeps the socket an identity already has
IngestAtFirstWriterWins(s, h, data, createdAt, seenAt) ==
    LET chipID == String(Get(data, KeyChipID))
        shade == IF chipID \in DOMAIN h.shades THEN h.shades[chipID]
                 ELSE NewRecord(chipID, createdAt)
        updated == [shade EXCEPT !.lastSeen = seenAt,
                                 !.online = TRUE,
                                 !.model = Get(data, KeyModel),
                                 !.firmware = Get(data, KeyVersion),
                                 !.rawPosition = Get(data, KeyPosition),
                                 !.currentPosition =
                                     positionToPercent(Get(data, KeyPosition))]
    IN  [h EXCEPT !.shadeChipID = chipID,
                  !.connectedShades =
                      [k \in DOMAIN h.connectedShades \cup {chipID} |->
                          IF k \in DOMAIN h.connectedShades THEN h.connectedShades[k]
                          ELSE s],
                  !.shades = [k \in DOMAIN h.shades \cup {chipID} |->
                                 IF k = chipID THEN updated ELSE h.shades[k]],
                  !.clock = seenAt]

\* lines 468-488: the bind and the record update, the clock reading createdAt at
\* line 478 (when the record is new) and seenAt at line 483
IngestAt(s, h, data, createdAt, seenAt) ==
    LET chipID == String(Get(data, KeyChipID))
        shade == IF chipID \in DOMAIN h.shades THEN h.shades[chipID]
                 ELSE NewRecord(chipID, createdAt)
        updated == [shade EXCEPT !.lastSeen = seenAt,
                                 !.online = TRUE,
                                 !.model = Get(data, KeyModel),
                                 !.firmware = Get(data, KeyVersion),
                                 !.rawPosition = Get(data, KeyPosition),
                                 !.currentPosition =
                                     positionToPercent(Get(data, KeyPosition))]
    IN  [h EXCEPT !.shadeChipID = chipID,
                  !.connectedShades =
                      [k \in DOMAIN h.connectedShades \cup {chipID} |->
                          IF k = chipID THEN s ELSE h.connectedShades[k]],
                  !.shades = [k \in DOMAIN h.shades \cup {chipID} |->
                                 IF k = chipID THEN updated ELSE h.shades[k]],
                  !.clock = seenAt]

\* Ingest in which a write that fails undoes lines 482-488
IngestSaveAborts(s, h, data) ==
    LET chipID == String(Get(data, KeyChipID))
        firstReads == IF chipID \in DOMAIN h.shades THEN {h.clock}
                      ELSE ClockReads(h.clock)
        updates == UNION { { IngestAt(s, h, data, t1, t2) : t2 \in ClockReads(t1) } :
                           t1 \in firstReads }
        Undone(g) == [g EXCEPT !.shades =
                         [k \in DOMAIN g.shades |->
                             IF k \in DOMAIN h.shades THEN h.shades[k]
                             ELSE NewRecord(k, g.clock)]]
    IN  UNION { {[g EXCEPT !.dataFile = Serialize(g.shades)]}
                \cup (IF "writeFile" \in faults THEN {Undone(g)} ELSE {}) :
                g \in updates }

\* lines 468-489: the status ingest, for every clock reading and save outcome
Ingest(s, h, data) ==
    LET chipID == String(Get(data, KeyChipID))
        firstReads == IF chipID \in DOMAIN h.shades THEN {h.clock}
                      ELSE ClockReads(h.clock)
        updates == UNION { { IngestAt(s, h, data, t1, t2) : t2 \in ClockReads(t1) } :
                           t1 \in firstReads }
    IN  UNION { { [g EXCEPT !.dataFile = f] : f \in saveData(g.shades, g.dataFile) } :
                g \in updates }

\* OnMessage that drops what is buffered behind a message it discards
OnMessageDropsRest(s, h, payload) ==
    LET data == JSONparse(payload)
    IN  IF data.kind = "object" /\ Truthy(Get(data.members, KeyChipID))
        THEN Ingest(s, h, data.members)
        ELSE {[h EXCEPT !.buffer = <<>>]}

\* OnMessage without the test of data.chipID at line 468
OnMessageAnyObject(s, h, payload) ==
    LET data == JSONparse(payload)
    IN  IF data.kind = "object" THEN Ingest(s, h, data.members) ELSE {h}

\* lines 461-500: a text or binary frame
OnMessage(s, h, payload) ==
    LET data == JSONparse(payload)
    IN  IF data.kind = "object" /\ Truthy(Get(data.members, KeyChipID))
        THEN Ingest(s, h, data.members)
        ELSE {h}

\* OnFrame answering a ping with a pong that carries no payload
OnFrameEmptyPong(s, h, frame) ==
    IF frame.opcode = 9
    THEN {[h EXCEPT !.wrote = sendWebSocketFrame(s, <<>>, 10, h.wrote)]}
    ELSE IF frame.opcode = 10 THEN {h}
    ELSE IF frame.opcode = 1 \/ frame.opcode = 2 THEN OnMessage(s, h, frame.payload)
    ELSE {h}

\* lines 451-500: the dispatch of one frame that is not a close frame
OnFrame(s, h, frame) ==
    IF frame.opcode = 9
    THEN {[h EXCEPT !.wrote = sendWebSocketFrame(s, frame.payload, 10, h.wrote)]}
    ELSE IF frame.opcode = 10 THEN {h}
    ELSE IF frame.opcode = 1 \/ frame.opcode = 2 THEN OnMessage(s, h, frame.payload)
    ELSE {h}

RECURSIVE ReadLoop(_, _)
\* lines 445-501: the while loop; a close frame ends the socket and returns
ReadLoop(s, h) ==
    IF Len(h.buffer) < 2 THEN {h}
    ELSE LET frame == parseWebSocketFrame(h.buffer)
             rest == [h EXCEPT !.buffer = Slice(h.buffer, frame.totalLength, Len(h.buffer))]
         IN  IF frame.null THEN {h}
             ELSE IF frame.opcode = 8 THEN {[rest EXCEPT !.ended = TRUE]}
             ELSE UNION { ReadLoop(s, g) : g \in OnFrame(s, rest, frame) }

\* OnData without the Buffer.concat of line 443: the chunk replaces the buffer
OnDataDropsBuffer(s, h, data) == ReadLoop(s, [h EXCEPT !.buffer = data])

\* lines 442-502: socket.on('data'), every outcome of one data event
OnData(s, h, data) == ReadLoop(s, [h EXCEPT !.buffer = h.buffer \o data])

\* the state after a handler run on socket s that ended as h
Becomes(s, h) ==
    /\ buffer' = [buffer EXCEPT ![s] = h.buffer]
    /\ shadeChipID' = [shadeChipID EXCEPT ![s] = h.shadeChipID]
    /\ connectedShades' = h.connectedShades
    /\ shadesDB' = h.shades
    /\ dataFile' = h.dataFile
    /\ clock' = h.clock
    /\ wrote' = h.wrote
    /\ sockState' = [sockState EXCEPT ![s] = IF h.ended THEN "ended" ELSE @]

(***************************************************************************)
(* What the devices and the API callers of the model send.                 *)
(***************************************************************************)
\* the chipIDs devices report
ChipIDs == {1, 2}

\* the identities API callers name: those of the devices and one never seen
ApiIdentities == { NumberToString(c) : c \in ChipIDs \cup {3} }

Percents == {50}
RawCommands == {73}

\* {"chipID":c,"position":850,"model":"wired","version":24}
FullStatus(c) ==
    StatusJSON([k \in {KeyChipID, KeyPosition, KeyModel, KeyVersion} |->
                   IF k = KeyChipID THEN Num(c)
                   ELSE IF k = KeyPosition THEN Num(850)
                   ELSE IF k = KeyModel THEN Str(<<119, 105, 114, 101, 100>>)
                   ELSE Num(24)])

\* {"chipID":c}
BareStatus(c) == StatusJSON([k \in {KeyChipID} |-> Num(c)])

\* {"position":850}: a status without an identity
NoIdentityText == <<123>> \o Quoted(KeyPosition) \o <<58, 56, 53, 48, 125>>

\* {"chipID" : a text that is not JSON
BrokenText == <<123>> \o Quoted(KeyChipID)

StatusTexts == { FullStatus(c) : c \in ChipIDs }

DeviceMaskKey == <<55, 250, 33, 61>>

\* a masked final frame in the shortest length encoding, as a device sends it
Masked(opcode, payload) == DeviceFrame(8, opcode, TRUE, DeviceMaskKey, 7, payload)

\* the chunks a data event delivers when each chunk is one whole frame
WholeFrames ==
    { Masked(1, text) : text \in StatusTexts \cup {NoIdentityText, BrokenText} }
    \cup { Masked(9, <<112, 105>>), Masked(10, <<>>), Masked(8, <<>>) }

(***************************************************************************)
(* The state after construction: no data file, nothing connected.          *)
(***************************************************************************)
NoResponse == [api |-> "none", status |-> "none", chipID |-> <<>>,
               value |-> Undefined, command |-> Undefined]
NoCall == [fn |-> "none", args |-> <<>>, ret |-> <<>>]

DefaultConfig == [SHADE_MIN |-> 73, SHADE_MAX |-> 100]

InitRegistry ==
    /\ shadesDB = [k \in {} |-> Undefined]
    /\ connectedShades = [k \in {} |-> ""]
    /\ dataFile = NoFile
    /\ sockState = [s \in Sockets |-> "free"]
    /\ shadeChipID = [s \in Sockets |-> NoChipID]
    /\ buffer = [s \in Sockets |-> <<>>]
    /\ wire = [s \in Sockets |-> <<>>]
    /\ clock = 0
    /\ wrote = <<>>
    /\ response = NoResponse

Init ==
    /\ CONFIG = DefaultConfig
    /\ faults = {}
    /\ InitRegistry
    /\ call = NoCall

(***************************************************************************)
(* server.on('upgrade').                                                   *)
(***************************************************************************)
\* the first line of the response of line 437
SwitchingProtocols == <<72, 84, 84, 80, 47, 49, 46, 49, 32, 49, 48, 49>>

\* lines 416-516 for a request with a sec-websocket-key header
Upgrade(s) ==
    /\ sockState[s] = "free"
    /\ sockState' = [sockState EXCEPT ![s] = "open"]
    /\ shadeChipID' = [shadeChipID EXCEPT ![s] = NoChipID]
    /\ buffer' = [buffer EXCEPT ![s] = <<>>]
    /\ wrote' = <<[socket |-> s, data |-> SwitchingProtocols]>>
    /\ response' = NoResponse
    /\ UNCHANGED <<static, shadesDB, connectedShades, dataFile, wire, clock, call>>

\* UpgradeWithoutKey with the response of line 437 written before the destroy
UpgradeWithoutKeyAnswers(s) ==
    /\ sockState[s] = "free"
    /\ sockState' = [sockState EXCEPT ![s] = "rejected"]
    /\ wrote' = <<[socket |-> s, data |-> SwitchingProtocols]>>
    /\ response' = NoResponse
    /\ UNCHANGED <<static, shadesDB, connectedShades, dataFile, shadeChipID, buffer,
                   wire, clock, call>>

\* lines 416-425 for a request without the header: socket.destroy() and return
UpgradeWithoutKey(s) ==
    /\ sockState[s] = "free"
    /\ sockState' = [sockState EXCEPT ![s] = "rejected"]
    /\ wrote' = <<>>
    /\ response' = NoResponse
    /\ UNCHANGED <<static, shadesDB, connectedShades, dataFile, shadeChipID, buffer,
                   wire, clock, call>>

(***************************************************************************)
(* socket.on('data') and socket.on('close').                               *)
(***************************************************************************)
\* a data event whose chunk is data
DataEvent(s, data) ==
    /\ sockState[s] \in {"open", "ended"}
    /\ \E h \in OnData(s, HandlerState(s), data) : Becomes(s, h)
    /\ response' = NoResponse
    /\ UNCHANGED <<static, call>>

\* a data event that delivers one whole frame
SocketData(s) ==
    /\ \E data \in WholeFrames : DataEvent(s, data)
    /\ UNCHANGED wire

\* SocketClose without line 509: the record stays online
SocketCloseKeepsOnline(s) ==
    /\ sockState[s] \in {"open", "ended"}
    /\ sockState' = [sockState EXCEPT ![s] = "closed"]
    /\ wire' = [wire EXCEPT ![s] = <<>>]
    /\ wrote' = <<>>
    /\ response' = NoResponse
    /\ IF shadeChipID[s] # NoChipID
       THEN connectedShades' = [k \in DOMAIN connectedShades \ {shadeChipID[s]} |->
                                   connectedShades[k]]
       ELSE UNCHANGED connectedShades
    /\ UNCHANGED <<static, shadesDB, dataFile, shadeChipID, buffer, clock, call>>

\* SocketClose without line 507: the binding stays in the live-session map
SocketCloseKeepsBinding(s) ==
    /\ sockState[s] \in {"open", "ended"}
    /\ sockState' = [sockState EXCEPT ![s] = "closed"]
    /\ wire' = [wire EXCEPT ![s] = <<>>]
    /\ wrote' = <<>>
    /\ response' = NoResponse
    /\ IF shadeChipID[s] # NoChipID /\ shadeChipID[s] \in DOMAIN shadesDB
       THEN /\ shadesDB' = [shadesDB EXCEPT ![shadeChipID[s]].online = FALSE]
            /\ dataFile' \in saveData(shadesDB', dataFile)
       ELSE UNCHANGED <<shadesDB, dataFile>>
    /\ UNCHANGED <<static, connectedShades, shadeChipID, buffer, clock, call>>

\* lines 504-514
SocketClose(s) ==
    /\ sockState[s] \in {"open", "ended"}
    /\ sockState' = [sockState EXCEPT ![s] = "closed"]
    /\ wire' = [wire EXCEPT ![s] = <<>>]
    /\ wrote' = <<>>
    /\ response' = NoResponse
    /\ IF shadeChipID[s] # NoChipID
       THEN /\ connectedShades' = [k \in DOMAIN connectedShades \ {shadeChipID[s]} |->
                                      connectedShades[k]]
            /\ IF shadeChipID[s] \in DOMAIN shadesDB
               THEN /\ shadesDB' = [shadesDB EXCEPT ![shadeChipID[s]].online = FALSE]
                    /\ dataFile' \in saveData(shadesDB', dataFile)
               ELSE UNCHANGED <<shadesDB, dataFile>>
       ELSE UNCHANGED <<connectedShades, shadesDB, dataFile>>
    /\ UNCHANGED <<static, shadeChipID, buffer, clock, call>>

(***************************************************************************)
(* The control API.                                                        *)
(***************************************************************************)
\* GET /api/health
getHealth ==
    [connectedShades |-> Cardinality(DOMAIN connectedShades),
     totalShades |-> Cardinality(DOMAIN shadesDB)]

\* GET /api/shades
listDevices ==
    [k \in DOMAIN shadesDB |->
        [shadesDB[k] EXCEPT !.online = (shadesDB[k].chipID \in DOMAIN connectedShades)]]

\* Dispatch answering "sent" whether or not the identity is bound
DispatchAlwaysSent(api, chipID, value, command) ==
    /\ wrote' = IF chipID \in DOMAIN connectedShades
                THEN sendToShade(connectedShades[chipID],
                                 CommandJSON(chipID, command), <<>>)
                ELSE <<>>
    /\ response' = [api |-> api, status |-> "sent", chipID |-> chipID,
                    value |-> value, command |-> Num(command)]
    /\ UNCHANGED <<static, shadesDB, connectedShades, dataFile, sockState,
                   shadeChipID, buffer, wire, clock, call>>

\* lines 335-343 and 362-370: the lookup, the send and the response
Dispatch(api, chipID, value, command) ==
    /\ IF chipID \in DOMAIN connectedShades
       THEN /\ wrote' = sendToShade(connectedShades[chipID],
                                    CommandJSON(chipID, command), <<>>)
            /\ response' = [api |-> api, status |-> "sent", chipID |-> chipID,
                            value |-> value, command |-> Num(command)]
       ELSE /\ wrote' = <<>>
            /\ response' = [api |-> api, status |-> "offline", chipID |-> chipID,
                            value |-> Undefined, command |-> Undefined]
    /\ UNCHANGED <<static, shadesDB, connectedShades, dataFile, sockState,
                   shadeChipID, buffer, wire, clock, call>>

\* POST /api/shades/:id/position
setPercent(chipID, position) ==
    Dispatch("position", chipID, Num(position), percentToCommand(position))

\* POST /api/shades/:id/command
setRawCommand(chipID, command) ==
    Dispatch("command", chipID, Undefined, command)

ApiCall ==
    \E chipID \in ApiIdentities :
        \/ \E position \in Percents : setPercent(chipID, position)
        \/ \E command \in RawCommands : setRawCommand(chipID, command)

Next ==
    \/ \E s \in Sockets : Upgrade(s)
    \/ \E s \in Sockets : UpgradeWithoutKey(s)
    \/ \E s \in Sockets : SocketData(s)
    \/ \E s \in Sockets : SocketClose(s)
    \/ ApiCall

Spec == Init /\ [][Next]_vars

(***************************************************************************)
(* Claims about the registry, under Spec.                                  *)
(***************************************************************************)
\* a socket whose handlers are registered and whose close event has not fired
Live(s) == sockState[s] \in {"open", "ended"}

\* the step is the close event of socket s
Closes(s) == Live(s) /\ sockState'[s] = "closed"

\* the step is a control API call
ApiStep == response'.api # "none"

Identities == { NumberToString(c) : c \in ChipIDs }

\* C1: when session a bound identity i and a newer session b then bound i too,
\* the later close of a leaves i mapped to b and DeviceRecord i online.
C1_StaleTeardownHarmless ==
    [][\A a \in Sockets : \A i \in DOMAIN connectedShades :
          (Closes(a) /\ shadeChipID[a] = i /\ connectedShades[i] # a
                     /\ Live(connectedShades[i]))
          => /\ i \in DOMAIN connectedShades'
             /\ connectedShades'[i] = connectedShades[i]
             /\ shadesDB'[i].online]_vars

C3_BoundIsKnown ==
    /\ DOMAIN connectedShades \subseteq DOMAIN shadesDB
    /\ getHealth.connectedShades <= getHealth.totalShades

C3_Witness ==
    /\ DOMAIN connectedShades # {}
    /\ getHealth.connectedShades < getHealth.totalShades

\* C4: setPercent and setRawCommand on an identity without an entry in the
\* live-session map answer "offline", write to no socket and change neither
\* the live-session map nor any DeviceRecord.
C4_OfflineDispatch ==
    [][(ApiStep /\ response'.chipID \notin DOMAIN connectedShades)
       => /\ response'.status = "offline"
          /\ wrote' = <<>>
          /\ UNCHANGED <<connectedShades, shadesDB, dataFile, sockState,
                         shadeChipID, buffer>>]_vars

C4_Witness ==
    /\ response.api = "position"
    /\ response.status = "offline"
    /\ response.chipID \notin DOMAIN connectedShades
    /\ \E i \in DOMAIN connectedShades : Live(connectedShades[i])
    /\ wrote = <<>>

\* the unmasked text frame that carries the command message for identity i
CommandFrame(i, command) ==
    LET json == CommandJSON(i, command) IN <<129, Len(json)>> \o json

\* C5: setPercent(i, p) on an identity bound in the live-session map writes
\* exactly one unmasked text frame with {chipID: i, command: percentToCommand(p)}
\* to the socket bound to i and to no other, answers "sent", and changes neither
\* the live-session map nor any DeviceRecord.
C5_BoundDispatchWrites ==
    [][(ApiStep /\ response'.api = "position"
                /\ response'.chipID \in DOMAIN connectedShades)
       => /\ response'.status = "sent"
          /\ response'.value.t = "number"
          /\ wrote' = <<[socket |-> connectedShades[response'.chipID],
                         data |-> CommandFrame(response'.chipID,
                                               percentToCommand(response'.value.n))]>>
          /\ UNCHANGED <<connectedShades, shadesDB>>]_vars

\* the step is a data event on socket s that delivers a status message of chipID c
StatusStep(s, c) ==
    /\ buffer[s] = <<>>
    /\ \E text \in StatusTexts :
          /\ Get(JSONparse(text).members, KeyChipID) = Num(c)
          /\ DataEvent(s, Masked(1, text))

\* C6: the first status ingest for an unknown identity creates exactly one
\* DeviceRecord, with firstSeen equal to lastSeen; a later ingest for the
\* identity, from any session, creates no record, keeps firstSeen and sets
\* lastSeen to the time of that ingest.
C6_FirstSeenLastSeen ==
    [][\A s \in Sockets : \A c \in ChipIDs :
          StatusStep(s, c)
          => LET i == NumberToString(c)
             IN  /\ shadesDB'[i].lastSeen = clock'
                 /\ IF i \in DOMAIN shadesDB
                    THEN /\ DOMAIN shadesDB' = DOMAIN shadesDB
                         /\ shadesDB'[i].firstSeen = shadesDB[i].firstSeen
                    ELSE /\ DOMAIN shadesDB' = DOMAIN shadesDB \cup {i}
                         /\ shadesDB'[i].firstSeen = shadesDB'[i].lastSeen]_vars

\* C7: when the socket bound to identity i closes while i still maps to it,
\* then i leaves the live-session map, DeviceRecord i stays and is offline,
\* getHealth's connectedShades is one less and listDevices shows i offline.
C7_CloseUnbinds ==
    [][\A s \in Sockets : \A i \in DOMAIN connectedShades :
          (Closes(s) /\ shadeChipID[s] = i /\ connectedShades[i] = s)
          => /\ i \notin DOMAIN connectedShades'
             /\ i \in DOMAIN shadesDB'
             /\ ~shadesDB'[i].online
             /\ getHealth'.connectedShades = getHealth.connectedShades - 1
             /\ ~listDevices'[i].online]_vars

C7_Witness ==
    \E s \in Sockets : \E i \in DOMAIN shadesDB :
        /\ sockState[s] = "closed" /\ shadeChipID[s] = i
        /\ i \notin DOMAIN connectedShades
        /\ ~shadesDB[i].online
        /\ DOMAIN connectedShades # {}

\* the status text of chipID c
StatusText == [c \in ChipIDs |-> FullStatus(c)]

\* the step is a data event in which the read loop of socket s, its buffer
\* empty before and after, handles the status message of chipID c
IngestStep(s, c) ==
    /\ Live(s) /\ buffer[s] = <<>>
    /\ response'.api = "none" /\ sockState'[s] = sockState[s]
    /\ shadeChipID'[s] = NumberToString(c)
    /\ \E h \in OnMessage(s, HandlerState(s), StatusText[c]) : Becomes(s, h)

\* C12: a status for identity i ingested by a session binds i to that session,
\* whichever session had it before, and leaves every other socket as it was,
\* with nothing written to it; while all sessions are live, a command for an
\* identity some session reported is written once, to the socket bound to it.
\* (Each step either has the effect or is not such an ingest.)
C12_LastWriterWins ==
    [][/\ \A s \in Sockets : \A c \in ChipIDs :
             \/ /\ NumberToString(c) \in DOMAIN connectedShades'
                /\ connectedShades'[NumberToString(c)] = s
                /\ \A o \in Sockets \ {s} : sockState'[o] = sockState[o]
                /\ wrote' = <<>>
             \/ ~IngestStep(s, c)
       /\ (ApiStep /\ response'.chipID \in DOMAIN shadesDB
                   /\ \A s \in Sockets : Live(s))
          => /\ response'.chipID \in DOMAIN connectedShades
             /\ response'.status = "sent"
             /\ Len(wrote') = 1
             /\ wrote'[1].socket = connectedShades[response'.chipID]
             /\ wrote'[1].data = CommandFrame(response'.chipID, response'.command.n)]_vars

\* both sessions reported the identity, and the command went to the one bound
C12_Witness ==
    /\ response.status = "sent"
    /\ \A s \in Sockets : Live(s) /\ shadeChipID[s] = response.chipID
    /\ Len(wrote) = 1
    /\ wrote[1].socket = connectedShades[response.chipID]

\* C16: the step that rejects an upgrade request without the key destroys the
\* socket, writes nothing and leaves the registry as it was; no later step is a
\* data or close handler of that socket: it stays destroyed, unbound, with an
\* empty buffer, and nothing is written to it.
C16_KeylessUpgradeRejected ==
    [][\A s \in Sockets :
          /\ (sockState[s] = "free" /\ sockState'[s] = "rejected")
             => /\ Destroyed(s)'
                /\ wrote' = <<>>
                /\ UNCHANGED <<shadesDB, connectedShades, dataFile, shadeChipID, buffer>>
          /\ sockState[s] = "rejected"
             => /\ UNCHANGED <<sockState[s], shadeChipID[s], buffer[s]>>
                /\ shadeChipID[s] = NoChipID
                /\ \A k \in DOMAIN wrote' : wrote'[k].socket # s
                /\ \A i \in DOMAIN connectedShades' : connectedShades'[i] # s]_vars

\* a request without the key was rejected while a device was bound
C16_Witness ==
    /\ \E s \in Sockets : sockState[s] = "rejected"
    /\ wrote = <<>>
    /\ response = NoResponse
    /\ \E i \in DOMAIN connectedShades : shadesDB[i].online

\* C19: the identity a session has bound never changes, and no socket is the
\* value of two identities in the live-session map.
C19_OneIdentityPerSession ==
    [][/\ \A s \in Sockets :
             (Live(s) /\ Live(s)' /\ shadeChipID[s] # NoChipID)
             => shadeChipID'[s] = shadeChipID[s]
       /\ \A i, j \in DOMAIN connectedShades' :
             connectedShades'[i] = connectedShades'[j] => i = j]_vars

\* C20: no identity of the live-session map maps to a socket whose close
\* handler has run, and every DeviceRecord that is online has an identity
\* that maps to a socket that has not closed.
C20_NoDanglingBinding ==
    /\ \A i \in DOMAIN connectedShades : sockState[connectedShades[i]] # "closed"
    /\ \A i \in DOMAIN shadesDB :
          shadesDB[i].online
          => (i \in DOMAIN connectedShades /\ Live(connectedShades[i]))

(***************************************************************************)
(* SpecCalib: the translation functions over calibrations (min, max) with  *)
(* max > min.  parseInt(...) || 73 never leaves a calibration value 0.     *)
(***************************************************************************)
CalibMins == {-50, 1, 73}

Calibrations ==
    { c \in { [SHADE_MIN |-> lo, SHADE_MAX |-> lo + range] :
                lo \in CalibMins, range \in 1..MaxRange } :
        c.SHADE_MIN # 0 /\ c.SHADE_MAX # 0 }

Percentages == 0..100

InitCalib ==
    /\ CONFIG \in Calibrations
    /\ faults = {}
    /\ InitRegistry
    /\ call = NoCall

\* the registry is not touched by a call of a pure function
PureCall(fn, args, ret) ==
    /\ call' = [fn |-> fn, args |-> args, ret |-> ret]
    /\ UNCHANGED <<static, shadesDB, connectedShades, dataFile, sockState,
                   shadeChipID, buffer, wire, clock, wrote, response>>

CallPercentToCommand ==
    \E p \in Percentages : PureCall("percentToCommand", <<p>>, <<percentToCommand(p)>>)

CallCommandToPercent ==
    \E c \in CONFIG.SHADE_MIN..CONFIG.SHADE_MAX :
        PureCall("commandToPercent", <<c>>, <<commandToPercent(c)>>)

CallRoundTrip ==
    \E p \in Percentages :
        PureCall("roundTrip", <<p>>, <<commandToPercent(percentToCommand(p))>>)

\* percentages outside 0..100, which no caller is kept from passing
OutsidePercents == {-1000, -250, -150, -101, -51, -50, -2, -1,
                    101, 102, 150, 199, 200, 250, 1000}

CallPercentToCommandOutside ==
    \E p \in OutsidePercents :
        PureCall("percentToCommand", <<p>>, <<percentToCommand(p)>>)

\* the raw positions a status may carry, those below 0 included, which
\* nothing keeps a device from reporting
RawPositions == -36..36 \cup {845, 850, 1000}

CallPositionToPercent ==
    \E raw \in RawPositions :
        PureCall("positionToPercent", <<raw>>, <<positionToPercent(Num(raw)).n>>)

\* commands below SHADE_MIN, which give percentages below 0
CallCommandToPercentBelow ==
    \E c \in (CONFIG.SHADE_MIN - 3)..(CONFIG.SHADE_MIN - 1) :
        PureCall("commandToPercent", <<c>>, <<commandToPercent(c)>>)

NextCalib ==
    \/ CallPercentToCommand
    \/ CallCommandToPercent
    \/ CallRoundTrip
    \/ CallPercentToCommandOutside
    \/ CallPositionToPercent
    \/ CallCommandToPercentBelow

SpecCalib == InitCalib /\ [][NextCalib]_vars

Abs(x) == IF x < 0 THEN 0 - x ELSE x

\* C8 as stated: for every integer p in [0,100] and every calibration with
\* max > min, commandToPercent(percentToCommand(p)) is within 1 of p.
C8_RoundTripWithinOne ==
    call.fn = "roundTrip" => Abs(call.ret[1] - call.args[1]) <= 1

\* C8 as amended: for every integer p in [0,100] and every calibration with
\* max - min >= 34, commandToPercent(percentToCommand(p)) is within 1 of p.
C8_RoundTripWithinOneFrom34 ==
    (call.fn = "roundTrip" /\ CONFIG.SHADE_MAX - CONFIG.SHADE_MIN >= 34)
    => Abs(call.ret[1] - call.args[1]) <= 1

C8_Witness ==
    /\ call.fn = "roundTrip"
    /\ CONFIG.SHADE_MAX - CONFIG.SHADE_MIN = 34
    /\ Abs(call.ret[1] - call.args[1]) = 1

\* C17: percentToCommand(p) is an integer nearest to min + p * (max - min) / 100
\* for every integer p, inside or outside 0..100, so nothing is clamped;
\* percentToCommand(0) = min, percentToCommand(100) = max, and on 0..100 the
\* result does not decrease with p and lies in min..max.
C17_PercentToCommand ==
    call.fn = "percentToCommand"
    => LET p == call.args[1]
           command == call.ret[1]
           range == CONFIG.SHADE_MAX - CONFIG.SHADE_MIN
       IN  /\ Abs(100 * command - (100 * CONFIG.SHADE_MIN + p * range)) <= 50
           /\ p = 0 => command = CONFIG.SHADE_MIN
           /\ p = 100 => command = CONFIG.SHADE_MAX
           /\ p \in 0..100 => (CONFIG.SHADE_MIN <= command /\ command <= CONFIG.SHADE_MAX)
           /\ p \in 0..99 => command <= percentToCommand(p + 1)

\* a percentage below 0 gave a command below min, one above 100 would give
\* a command above max
C17_Witness ==
    /\ call.fn = "percentToCommand"
    /\ call.args[1] = -250
    /\ CONFIG = DefaultConfig
    /\ call.ret[1] = 6

\* a / b, b > 0, rounded to the nearest integer, a half going away from zero
RoundHalfAway(a, b) ==
    IF a >= 0 THEN (2 * a + b) \div (2 * b) ELSE 0 - ((2 * (0 - a) + b) \div (2 * b))

\* a / b, b > 0, rounded to the nearest integer, a half going to the even one
RoundHalfEven(a, b) ==
    LET q == a \div b
        r == a - q * b
    IN  IF 2 * r < b THEN q
        ELSE IF 2 * r > b THEN q + 1
        ELSE IF q % 2 = 0 THEN q ELSE q + 1

\* the exact result of the call, as a numerator over a positive denominator
ExactNum ==
    IF call.fn = "percentToCommand"
    THEN CONFIG.SHADE_MIN * 100 + call.args[1] * (CONFIG.SHADE_MAX - CONFIG.SHADE_MIN)
    ELSE IF call.fn = "commandToPercent" THEN (call.args[1] - CONFIG.SHADE_MIN) * 100
    ELSE call.args[1]

ExactDen ==
    IF call.fn = "percentToCommand" THEN 100
    ELSE IF call.fn = "commandToPercent" THEN CONFIG.SHADE_MAX - CONFIG.SHADE_MIN
    ELSE 10

\* C24: percentToCommand, commandToPercent and positionToPercent return, for
\* every integer input, negative ones included, the exact result rounded
\* half away from zero or rounded half to even.
C24_OneRoundingRule ==
    call.fn \in {"percentToCommand", "commandToPercent", "positionToPercent"}
    => call.ret[1] \in {RoundHalfAway(ExactNum, ExactDen),
                        RoundHalfEven(ExactNum, ExactDen)}

(***************************************************************************)
(* SpecCodec: parseWebSocketFrame on the frames a device can build.        *)
(***************************************************************************)
\* a payload of length n
TestPayload(n) == [i \in 1..n |-> (i * 89 + 7) % 256]

\* payload lengths around the limits of the length encodings
LongLengths == {125, 126, 65535, 65536}

PayloadLengths == 0..MaxPayloadLen \cup LongLengths

MaskKeys == {DeviceMaskKey, <<0, 0, 255, 255>>}

\* bytes that follow the frame in the buffer
Trailings == {<<>>, <<129>>, <<137, 0, 1>>}

FrameInputs ==
    { a \in [highBits : {0, 8}, opcode : {1, 2, 8, 9, 10}, masked : BOOLEAN,
             maskKey : MaskKeys, variant : {7, 16, 64}, length : PayloadLengths,
             trailing : Trailings] :
        /\ (a.variant = 7 => a.length < 126)
        /\ (a.variant = 16 => a.length < 65536)
        /\ (~a.masked => a.maskKey = DeviceMaskKey)
        /\ (a.length >= 65535 =>
               a.opcode = 2 /\ a.highBits = 8 /\ a.maskKey = DeviceMaskKey
               /\ a.trailing = <<129>>) }

\* the buffer of an input: the frame and what follows it
InputBuffer(a) ==
    DeviceFrame(a.highBits, a.opcode, a.masked, a.maskKey, a.variant,
                TestPayload(a.length)) \o a.trailing

InitCodec ==
    /\ CONFIG = DefaultConfig
    /\ faults = {}
    /\ InitRegistry
    /\ \E a \in FrameInputs : call = [fn |-> "deviceFrame", args |-> a, ret |-> <<>>]

Decode ==
    /\ call.fn = "deviceFrame"
    /\ PureCall("parseWebSocketFrame", call.args,
                <<parseWebSocketFrame(InputBuffer(call.args))>>)

\* the socket sendWebSocketFrame is given
CodecSocket == "A"

\* sendWebSocketFrame on an open socket, with the opcode and payload of the input
Encode ==
    /\ call.fn = "deviceFrame"
    /\ PureCall("sendWebSocketFrame",
                [opcode |-> call.args.opcode, length |-> call.args.length],
                sendWebSocketFrame(CodecSocket, TestPayload(call.args.length),
                                   call.args.opcode, <<>>))

\* parseWebSocketFrame on the frame sendWebSocketFrame writes for the opcode
\* and payload of the input; ret holds the parsed frame and that frame's length
DecodeEncoded ==
    /\ call.fn = "deviceFrame"
    /\ LET written == sendWebSocketFrame(CodecSocket, TestPayload(call.args.length),
                                         call.args.opcode, <<>>)
       IN  PureCall("decodeEncoded",
                    [opcode |-> call.args.opcode, length |-> call.args.length],
                    <<parseWebSocketFrame(written[1].data), Len(written[1].data)>>)

NextCodec == Decode \/ Encode \/ DecodeEncoded

SpecCodec == InitCodec /\ [][NextCodec]_vars

\* C9: on a buffer that begins with a complete frame, in any length encoding,
\* masked or not, followed by further bytes or not, Decode returns the opcode,
\* consumes header + (4 if masked) + L bytes and returns the unmasked payload.
C9_DecodeCompleteFrame ==
    call.fn = "parseWebSocketFrame"
    => LET a == call.args
           frame == call.ret[1]
       IN  /\ ~frame.null
           /\ frame.opcode = a.opcode
           /\ frame.totalLength
                = HeaderLength(a.variant) + (IF a.masked THEN 4 ELSE 0) + a.length
           /\ frame.payload = TestPayload(a.length)

C9_Witness ==
    /\ call.fn = "parseWebSocketFrame"
    /\ call.args.variant = 64 /\ call.args.masked /\ call.args.length = 5
    /\ call.args.maskKey = DeviceMaskKey
    /\ call.args.trailing # <<>>
    /\ call.ret[1].payload = TestPayload(5)
    /\ call.ret[1].totalLength = 19

\* the number that the bytes b[from..to] hold, most significant byte first
BigEndian(b, from, to) ==
    LET RECURSIVE Value(_)
        Value(k) == IF k < from THEN 0 ELSE Value(k - 1) * 256 + b[k]
    IN  Value(to)

\* C11: the frame sendWebSocketFrame writes for a payload of n bytes and opcode
\* op starts with 0x80|op, has the mask bit clear and uses the smallest length
\* encoding: n in byte 1 below 126, 126 and a 16-bit length below 65536, 127
\* and a 64-bit length from 65536 on; the payload follows unchanged.
C11_EncodeSmallestLength ==
    call.fn = "sendWebSocketFrame"
    => LET n == call.args.length
           frame == call.ret[1].data
           header == IF n < 126 THEN 2 ELSE IF n < 65536 THEN 4 ELSE 10
       IN  /\ Len(call.ret) = 1
           /\ frame[1] = 128 + call.args.opcode
           /\ frame[2] < 128
           /\ Len(frame) = header + n
           /\ n < 126 => frame[2] = n
           /\ (126 <= n /\ n < 65536) => (frame[2] = 126 /\ BigEndian(frame, 3, 4) = n)
           /\ 65536 <= n
              => /\ frame[2] = 127
                 /\ \A k \in 3..6 : frame[k] = 0
                 /\ BigEndian(frame, 7, 10) = n
           /\ SubSeq(frame, header + 1, Len(frame)) = TestPayload(n)

C11_Witness ==
    /\ call.fn = "sendWebSocketFrame"
    /\ call.args.length = 126
    /\ call.args.opcode = 9
    /\ SubSeq(call.ret[1].data, 1, 4) = <<137, 126, 0, 126>>
    /\ Len(call.ret[1].data) = 130

\* C27: parseWebSocketFrame on the frame sendWebSocketFrame writes for an
\* opcode and a payload returns that opcode, that payload and, as the bytes
\* consumed, the length of the whole frame.
C27_CodecRoundTrip ==
    call.fn = "decodeEncoded"
    => /\ ~call.ret[1].null
       /\ call.ret[1].opcode = call.args.opcode
       /\ call.ret[1].payload = TestPayload(call.args.length)
       /\ call.ret[1].totalLength = call.ret[2]

\* a close frame with a payload of 126 bytes, in the 16-bit encoding, came back
C27_Witness ==
    /\ call.fn = "decodeEncoded"
    /\ call.args.opcode = 8 /\ call.args.length = 126
    /\ call.ret[1].opcode = 8
    /\ Len(call.ret[1].payload) = 126
    /\ call.ret[2] = 130

(***************************************************************************)
(* SpecStream: one device whose frames reach the data handler in chunks    *)
(* cut anywhere.                                                           *)
(***************************************************************************)
\* the frames the device sends: a masked status in the 7-bit encoding, a
\* masked status in the 16-bit encoding, an unmasked ping in the 64-bit
\* encoding, a masked pong and a masked close
StreamFrameInputs ==
    { [opcode |-> 1, masked |-> TRUE, variant |-> 7, payload |-> BareStatus(1)],
      [opcode |-> 1, masked |-> TRUE, variant |-> 16, payload |-> BareStatus(2)],
      [opcode |-> 9, masked |-> FALSE, variant |-> 64, payload |-> <<112, 105>>],
      [opcode |-> 10, masked |-> TRUE, variant |-> 7, payload |-> <<>>],
      [opcode |-> 8, masked |-> TRUE, variant |-> 7, payload |-> <<>>] }

FrameBytes(f) == DeviceFrame(8, f.opcode, f.masked, DeviceMaskKey, f.variant, f.payload)

StreamFrames == { FrameBytes(f) : f \in StreamFrameInputs }

StreamSocket == "A"

\* the device writes one more frame to its connection; MaxWire bounds the
\* bytes sent that the data handler has not consumed
DeviceWrite(s) ==
    /\ sockState[s] \in {"open", "ended"}
    /\ \E F \in StreamFrames :
          /\ Len(buffer[s]) + Len(wire[s]) + Len(F) <= MaxWire
          /\ wire' = [wire EXCEPT ![s] = @ \o F]
    /\ UNCHANGED <<static, shadesDB, connectedShades, dataFile, sockState,
                   shadeChipID, buffer, clock, wrote, response, call>>

\* a data event with the next n bytes of the connection
Deliver(s) ==
    \E n \in 1..Len(wire[s]) :
        /\ DataEvent(s, SubSeq(wire[s], 1, n))
        /\ wire' = [wire EXCEPT ![s] = SubSeq(@, n + 1, Len(@))]

NextStream ==
    \/ Upgrade(StreamSocket)
    \/ DeviceWrite(StreamSocket)
    \/ Deliver(StreamSocket)
    \/ SocketClose(StreamSocket)

SpecStream == Init /\ [][NextStream]_vars

IsStrictPrefix(p, F) == Len(p) < Len(F) /\ p = SubSeq(F, 1, Len(p))

\* the step is a data event on socket s
DataStep(s) ==
    /\ sockState[s] \in {"open", "ended"} /\ sockState'[s] # "closed"
    /\ Len(wire'[s]) < Len(wire[s])

\* the chunk of the data event of the step
Chunk(s) == SubSeq(wire[s], 1, Len(wire[s]) - Len(wire'[s]))

\* C10: while the buffer of a session, with the chunk just received, is a
\* strict prefix of a frame, Decode returns null and the data event changes
\* nothing but the buffer, which holds all the bytes received; when a later
\* chunk completes the frame, Decode returns it whole and the data event ends
\* as the data event that gets the frame in one piece.
C10_TruncatedFrameRetried ==
    [][\A s \in Sockets :
          DataStep(s)
          => LET total == buffer[s] \o Chunk(s)
             IN  \A f \in StreamFrameInputs :
                    /\ IsStrictPrefix(total, FrameBytes(f))
                       => /\ parseWebSocketFrame(total) = NoFrame
                          /\ buffer'[s] = total
                          /\ wrote' = <<>>
                          /\ UNCHANGED <<shadesDB, connectedShades, dataFile,
                                         sockState, shadeChipID, clock>>
                    /\ (buffer[s] # <<>> /\ total = FrameBytes(f))
                       => /\ parseWebSocketFrame(total)
                               = [null |-> FALSE, opcode |-> f.opcode,
                                  payload |-> f.payload, totalLength |-> Len(total)]
                          /\ buffer'[s] = <<>>
                          /\ \E h \in OnData(s, [HandlerState(s) EXCEPT !.buffer = <<>>],
                                          FrameBytes(f)) : Becomes(s, h)
                          /\ f.payload = BareStatus(1)
                             => /\ shadeChipID'[s] = NumberToString(1)
                                /\ NumberToString(1) \in DOMAIN connectedShades'
                                /\ connectedShades'[NumberToString(1)] = s
                                /\ NumberToString(1) \in DOMAIN shadesDB']_vars

\* a session that has decoded a status holds the first bytes of the next
\* status frame, through half of its mask key, the rest being on its way
C10_Witness ==
    \E f \in StreamFrameInputs :
        /\ f.variant = 16
        /\ buffer[StreamSocket] = SubSeq(FrameBytes(f), 1, 6)
        /\ buffer[StreamSocket] \o wire[StreamSocket] = FrameBytes(f)
        /\ shadeChipID[StreamSocket] = NumberToString(1)
        /\ NumberToString(1) \in DOMAIN shadesDB

\* the ping and the pong among the frames of the device
StreamPing ==
    FrameBytes([opcode |-> 9, masked |-> FALSE, variant |-> 64, payload |-> <<112, 105>>])
StreamPong ==
    FrameBytes([opcode |-> 10, masked |-> TRUE, variant |-> 7, payload |-> <<>>])

\* the pong that answers StreamPing: opcode 0xA, unmasked, the payload of the ping
PongWrite(s) == [socket |-> s, data |-> <<138, 2, 112, 105>>]

\* C15: in a session that has received no close frame, a data event that
\* completes a ping writes one pong with the ping's payload to the same socket,
\* one that completes a pong writes nothing, and neither changes the
\* live-session map, a DeviceRecord or the bound identity; a frame buffered
\* behind the ping or pong is then handled as if it had come alone.
C15_PingPong ==
    [][\A s \in Sockets :
          (DataStep(s) /\ sockState[s] = "open")
          => LET total == buffer[s] \o Chunk(s)
                 alone == [HandlerState(s) EXCEPT !.buffer = <<>>]
             IN  /\ total = StreamPing
                    => /\ wrote' = <<PongWrite(s)>>
                       /\ buffer'[s] = <<>>
                       /\ UNCHANGED <<shadesDB, connectedShades, dataFile,
                                      sockState, shadeChipID, clock>>
                 /\ total = StreamPong
                    => /\ wrote' = <<>>
                       /\ buffer'[s] = <<>>
                       /\ UNCHANGED <<shadesDB, connectedShades, dataFile,
                                      sockState, shadeChipID, clock>>
                 /\ \A F \in StreamFrames :
                       /\ total = StreamPing \o F
                          => \E h \in OnData(s, [alone EXCEPT !.wrote = <<PongWrite(s)>>], F) :
                                Becomes(s, h)
                       /\ total = StreamPong \o F
                          => \E h \in OnData(s, alone, F) : Becomes(s, h)]_vars

\* the session bound to identity 1 has just answered a ping and is still open
C15_Witness ==
    /\ sockState[StreamSocket] = "open"
    /\ shadeChipID[StreamSocket] = NumberToString(1)
    /\ wrote = <<PongWrite(StreamSocket)>>
    /\ buffer[StreamSocket] = <<>>

\* C21: once a session has received a close frame, no data event on its
\* connection binds an identity or creates or updates a DeviceRecord.
C21_NoIngestAfterClose ==
    [][\A s \in Sockets :
          (sockState[s] = "ended" /\ DataStep(s))
          => UNCHANGED <<connectedShades, shadesDB, shadeChipID, dataFile>>]_vars

(***************************************************************************)
(* SpecDiscard: one connection that carries, among statuses and pings,     *)
(* messages the gateway cannot use and the status of chipID 0, its frames  *)
(* reaching the data handler in chunks cut anywhere.                       *)
(***************************************************************************)
\* frames whose payload is no status: a text that is not JSON ("{"), a text
\* that is JSON but no object (null), a binary that is an object without chipID
\* ({})
DiscardedFrames ==
    { Masked(1, <<123>>), Masked(1, <<110, 117, 108, 108>>), Masked(2, <<123, 125>>) }

\* the frames that may follow: a status and a ping
FollowingFrames == { Masked(1, BareStatus(1)), Masked(9, <<112, 105>>) }

\* the status of the device whose chipID is 0: {"chipID":0}
ZeroStatusFrame == Masked(1, BareStatus(0))

\* the device writes one more frame; MaxBacklog bounds the bytes sent that the
\* data handler has not consumed
DeviceWriteAny(s) ==
    /\ sockState[s] \in {"open", "ended"}
    /\ \E F \in DiscardedFrames \cup FollowingFrames \cup {ZeroStatusFrame} :
          /\ Len(buffer[s]) + Len(wire[s]) + Len(F) <= MaxBacklog
          /\ wire' = [wire EXCEPT ![s] = @ \o F]
    /\ UNCHANGED <<static, shadesDB, connectedShades, dataFile, sockState,
                   shadeChipID, buffer, clock, wrote, response, call>>

NextDiscard ==
    \/ Upgrade(StreamSocket)
    \/ DeviceWriteAny(StreamSocket)
    \/ Deliver(StreamSocket)
    \/ SocketClose(StreamSocket)

SpecDiscard == Init /\ [][NextDiscard]_vars

\* C14: a data event that completes a text or binary frame whose payload is
\* not JSON, or is JSON without a device identity, empties the buffer and
\* changes nothing else, the session staying open; when a further frame is
\* buffered behind it, the data event ends as the data event that gets that
\* frame alone: a status is ingested, a ping is answered.
C14_MalformedDiscarded ==
    [][\A s \in Sockets :
          DataStep(s)
          => LET total == buffer[s] \o Chunk(s)
             IN  \A M \in DiscardedFrames :
                    /\ total = M
                       => /\ buffer'[s] = <<>>
                          /\ wrote' = <<>>
                          /\ UNCHANGED <<shadesDB, connectedShades, dataFile,
                                         sockState, shadeChipID, clock>>
                    /\ \A F \in FollowingFrames :
                          total = M \o F
                          => /\ \E h \in OnData(s, [HandlerState(s) EXCEPT !.buffer = <<>>], F) :
                                   Becomes(s, h)
                             /\ buffer'[s] = <<>>
                             /\ F = Masked(1, BareStatus(1))
                                => /\ shadeChipID'[s] = NumberToString(1)
                                   /\ NumberToString(1) \in DOMAIN shadesDB'
                                   /\ connectedShades'[NumberToString(1)] = s
                             /\ F = Masked(9, <<112, 105>>)
                                => wrote' = <<[socket |-> s,
                                               data |-> <<138, 2, 112, 105>>]>>]_vars

\* a discarded frame and a status behind it are on their way to a session that
\* is open and has bound nothing yet
C14_Witness ==
    /\ sockState[StreamSocket] = "open"
    /\ shadeChipID[StreamSocket] = NoChipID
    /\ \E M \in DiscardedFrames :
          buffer[StreamSocket] \o wire[StreamSocket] = M \o Masked(1, BareStatus(1))
    /\ Len(buffer[StreamSocket]) = 3

\* C18: a data event that completes a text frame whose payload is a JSON
\* object with an integer chipID, 0 included, leaves String(chipID) bound to
\* the session and a DeviceRecord for it online.
C18_IntegerChipIDIngested ==
    [][\A s \in Sockets : \A c \in {0, 1} :
          (DataStep(s) /\ buffer[s] \o Chunk(s) = Masked(1, BareStatus(c)))
          => /\ NumberToString(c) \in DOMAIN connectedShades'
             /\ connectedShades'[NumberToString(c)] = s
             /\ NumberToString(c) \in DOMAIN shadesDB'
             /\ shadesDB'[NumberToString(c)].online]_vars

(***************************************************************************)
(* SpecRestart: sessions that report statuses with and without a position, *)
(* and a gateway that is stopped and started again.  The process has no    *)
(* shutdown handler: no close handler runs when it stops.                  *)
(***************************************************************************)
\* the status frames of the devices: one with a position, one without
RestartFrames == { Masked(1, FullStatus(1)), Masked(1, BareStatus(1)),
                   Masked(1, BareStatus(2)) }

\* a data event that delivers one whole status frame
StatusData(s) ==
    /\ \E data \in RestartFrames : DataEvent(s, data)
    /\ UNCHANGED wire

\* lines 183-204 in a new process: loadData reads what saveData wrote
Restart ==
    /\ shadesDB' = IF dataFile.exists THEN dataFile.shades
                   ELSE [k \in {} |-> Undefined]
    /\ connectedShades' = [k \in {} |-> ""]
    /\ sockState' = [s \in Sockets |-> "free"]
    /\ shadeChipID' = [s \in Sockets |-> NoChipID]
    /\ buffer' = [s \in Sockets |-> <<>>]
    /\ wire' = [s \in Sockets |-> <<>>]
    /\ wrote' = <<>>
    /\ response' = NoResponse
    /\ UNCHANGED <<static, dataFile, clock, call>>

NextRestart ==
    \/ \E s \in Sockets : Upgrade(s)
    \/ \E s \in Sockets : StatusData(s)
    \/ \E s \in Sockets : SocketClose(s)
    \/ Restart

SpecRestart == Init /\ [][NextRestart]_vars

\* C13: in every reachable state the currentPosition of every DeviceRecord is
\* positionToPercent of the rawPosition the record holds.
C13_PercentFromRaw ==
    \A i \in DOMAIN shadesDB :
        shadesDB[i].currentPosition = positionToPercent(shadesDB[i].rawPosition)

\* C22: the restart that reloads the record store leaves the live-session map
\* empty and no DeviceRecord online.
C22_OfflineAfterRestart ==
    [][Restart
       => /\ DOMAIN connectedShades' = {}
          /\ \A i \in DOMAIN shadesDB' : ~shadesDB'[i].online]_vars

(***************************************************************************)
(* SpecOrder: one connection on which the device writes streams of         *)
(* statuses of one identity that differ in their fields, and close frames, *)
(* each stream being cut into chunks anywhere.                             *)
(***************************************************************************)
\* {"chipID":1,"position":5}
PositionStatus == StatusJSON([k \in {KeyChipID, KeyPosition} |->
                                 IF k = KeyChipID THEN Num(1) ELSE Num(5)])

\* {"chipID":1,"version":2}
VersionStatus == StatusJSON([k \in {KeyChipID, KeyVersion} |->
                                IF k = KeyChipID THEN Num(1) ELSE Num(2)])

\* what the device writes in one go: two statuses in either order, a close
\* frame before a status, a close frame between two statuses
OrderStreams ==
    { Masked(1, PositionStatus) \o Masked(2, VersionStatus),
      Masked(2, VersionStatus) \o Masked(1, PositionStatus),
      Masked(8, <<>>) \o Masked(1, PositionStatus),
      Masked(1, PositionStatus) \o Masked(8, <<>>) \o Masked(2, VersionStatus) }

\* the device, all it sent being consumed, writes one more stream
DeviceWriteStream(s) ==
    /\ sockState[s] \in {"open", "ended"}
    /\ buffer[s] = <<>> /\ wire[s] = <<>>
    /\ \E F \in OrderStreams : wire' = [wire EXCEPT ![s] = F]
    /\ UNCHANGED <<static, shadesDB, connectedShades, dataFile, sockState,
                   shadeChipID, buffer, clock, wrote, response, call>>

NextOrder ==
    \/ Upgrade(StreamSocket)
    \/ DeviceWriteStream(StreamSocket)
    \/ Deliver(StreamSocket)
    \/ SocketClose(StreamSocket)

SpecOrder == Init /\ [][NextOrder]_vars

RECURSIVE Delivered(_)
\* the complete frames of a byte stream, in its order
Delivered(bytes) ==
    IF Len(bytes) < 2 THEN <<>>
    ELSE CHOOSE frames \in
            { IF f.null THEN <<>>
              ELSE <<f>> \o (CHOOSE more \in
                                { Delivered(rest) :
                                    rest \in {Slice(bytes, f.totalLength, Len(bytes))} } :
                                TRUE) :
              f \in {parseWebSocketFrame(bytes)} } : TRUE

RECURSIVE SumLengths(_)
SumLengths(frames) ==
    IF frames = <<>> THEN 0 ELSE Head(frames).totalLength + SumLengths(Tail(frames))

\* the status frames among frames
Statuses(frames) == SelectSeq(frames, LAMBDA f : f.opcode \in {1, 2})

\* C23: after a data event of a connection, whatever the chunks were, the
\* buffer holds only the bytes after the last complete frame delivered, and
\* when a complete status frame was delivered the record of its identity has
\* the rawPosition, model and firmware of the last one.
C23_StreamOrder ==
    [][\A s \in Sockets :
          DataStep(s)
          => \A total \in {buffer[s] \o Chunk(s)} :
             \A frames \in {Delivered(total)} :
                /\ buffer'[s] = Slice(total, SumLengths(frames), Len(total))
                /\ Statuses(frames) # <<>>
                   => LET last == Statuses(frames)[Len(Statuses(frames))].payload
                          data == JSONparse(last).members
                          id == String(Get(data, KeyChipID))
                      IN  /\ id \in DOMAIN shadesDB'
                          /\ shadesDB'[id].rawPosition = Get(data, KeyPosition)
                          /\ shadesDB'[id].model = Get(data, KeyModel)
                          /\ shadesDB'[id].firmware = Get(data, KeyVersion)]_vars

(***************************************************************************)
(* SpecFault: the sessions and the control API while writeFileSync may     *)
(* throw at any call of saveData.                                          *)
(***************************************************************************)
InitFault ==
    /\ CONFIG = DefaultConfig
    /\ faults = {"writeFile"}
    /\ InitRegistry
    /\ call = NoCall

\* the device of the model: chipID 1
FaultChipID == 1

\* a data event that delivers one whole status frame of the device
FaultData(s) ==
    /\ buffer[s] = <<>>
    /\ DataEvent(s, Masked(1, StatusText[FaultChipID]))
    /\ UNCHANGED wire

\* POST /api/shades/1/position
FaultCall == \E position \in Percents : setPercent(NumberToString(FaultChipID), position)

NextFault ==
    \/ \E s \in Sockets : Upgrade(s)
    \/ \E s \in Sockets : FaultData(s)
    \/ \E s \in Sockets : SocketClose(s)
    \/ FaultCall

SpecFault == InitFault /\ [][NextFault]_vars

\* C25: whether or not the write of the data file fails, a status ingest
\* leaves the session open and bound, the live-session map pointing at it and
\* the DeviceRecord online with the fields of the status; a close removes the
\* binding, sets the record offline and touches no other session; a command
\* for an identity bound to a live session is sent to it.
C25_SaveFailureNotFatal ==
    [][/\ \A s \in Sockets :
             \/ LET i == NumberToString(FaultChipID)
                    data == JSONparse(StatusText[FaultChipID]).members
                IN  /\ sockState' = sockState
                    /\ shadeChipID'[s] = i
                    /\ i \in DOMAIN connectedShades' /\ connectedShades'[i] = s
                    /\ i \in DOMAIN shadesDB'
                    /\ shadesDB'[i].online
                    /\ shadesDB'[i].lastSeen = clock'
                    /\ shadesDB'[i].rawPosition = Get(data, KeyPosition)
                    /\ shadesDB'[i].currentPosition
                          = positionToPercent(Get(data, KeyPosition))
                    /\ shadesDB'[i].model = Get(data, KeyModel)
                    /\ shadesDB'[i].firmware = Get(data, KeyVersion)
                    /\ dataFile' \in {dataFile, Serialize(shadesDB')}
             \/ ~IngestStep(s, FaultChipID)
       /\ \A s \in Sockets :
             (Closes(s) /\ shadeChipID[s] # NoChipID)
             => /\ shadeChipID[s] \notin DOMAIN connectedShades'
                /\ DOMAIN shadesDB' = DOMAIN shadesDB
                /\ shadeChipID[s] \in DOMAIN shadesDB => ~shadesDB'[shadeChipID[s]].online
                /\ \A o \in Sockets \ {s} : sockState'[o] = sockState[o]
                /\ dataFile' \in {dataFile, Serialize(shadesDB')}
       /\ (ApiStep /\ response'.chipID \in DOMAIN connectedShades
                   /\ Live(connectedShades[response'.chipID]))
          => /\ response'.status = "sent"
             /\ Len(wrote') = 1
             /\ wrote'[1].socket = connectedShades[response'.chipID]
             /\ wrote'[1].data = CommandFrame(response'.chipID, response'.command.n)
             /\ UNCHANGED <<connectedShades, shadesDB, dataFile, sockState>>]_vars

\* no write has succeeded: a first session ingested and closed, a second one
\* ingested and got the command
C25_Witness ==
    /\ dataFile = NoFile
    /\ sockState["A"] = "closed" /\ shadeChipID["A"] = NumberToString(FaultChipID)
    /\ sockState["B"] = "open"
    /\ NumberToString(FaultChipID) \in DOMAIN connectedShades
    /\ connectedShades[NumberToString(FaultChipID)] = "B"
    /\ shadesDB[NumberToString(FaultChipID)].online
    /\ response.status = "sent"
    /\ Len(wrote) = 1 /\ wrote[1].socket = "B"

(***************************************************************************)
(* SpecUnbound: a session that sends no status, next to one that does.     *)
(***************************************************************************)
\* the socket of the session that sends no status
UnboundSocket == "A"

\* the socket of the session of the device
BoundSocket == "B"

\* a ping, a pong, a text without an identity, a text that is not JSON, a close
UnboundFrames ==
    { Masked(9, <<112, 105>>), Masked(10, <<>>), Masked(1, NoIdentityText),
      Masked(1, BrokenText), Masked(8, <<>>) }

\* the peer, all it sent being consumed, writes one more frame
DeviceWriteUnbound(s) ==
    /\ sockState[s] \in {"open", "ended"}
    /\ buffer[s] = <<>> /\ wire[s] = <<>>
    /\ \E F \in UnboundFrames : wire' = [wire EXCEPT ![s] = F]
    /\ UNCHANGED <<static, shadesDB, connectedShades, dataFile, sockState,
                   shadeChipID, buffer, clock, wrote, response, call>>

NextUnbound ==
    \/ \E s \in Sockets : Upgrade(s)
    \/ DeviceWriteUnbound(UnboundSocket)
    \/ Deliver(UnboundSocket)
    \/ FaultData(BoundSocket)
    \/ \E s \in Sockets : SocketClose(s)

SpecUnbound == Init /\ [][NextUnbound]_vars

\* C26: a data event or the close of a session that has bound no identity
\* leaves the session unbound and the live-session map, the DeviceRecords and
\* the data file as they were, and getHealth counts what it counted before.
C26_UnboundContributesNothing ==
    [][\A s \in Sockets :
          (shadeChipID[s] = NoChipID /\ (DataStep(s) \/ Closes(s)))
          => /\ shadeChipID'[s] = NoChipID
             /\ UNCHANGED <<connectedShades, shadesDB, dataFile>>
             /\ getHealth' = getHealth]_vars

\* the session that sent no status got a close frame and closed, the other
\* session being bound
C26_Witness ==
    /\ sockState[UnboundSocket] = "closed"
    /\ shadeChipID[UnboundSocket] = NoChipID
    /\ DOMAIN connectedShades = {NumberToString(FaultChipID)}
    /\ connectedShades[NumberToString(FaultChipID)] = BoundSocket
    /\ shadesDB[NumberToString(FaultChipID)].online
    /\ dataFile = Serialize(shadesDB)
    /\ getHealth = [connectedShades |-> 1, totalShades |-> 1]

====
